---- MODULE Spec2Model ----
(***************************************************************************)
(* Model of barcode_manager.py (class WarehouseManager): the catalog, the  *)
(* barcode and label pipeline, the bulk label driver, the synthetic bar    *)
(* pattern and the main menu loop.                                         *)
(*                                                                         *)
(* Strings are sequences of code points, so that slicing, case folding,    *)
(* character classes and the code-point sum are computed as Python         *)
(* computes them (over ASCII; the bar glyph is U+2588 = 9608).             *)
(***************************************************************************)
EXTENDS Integers, Sequences, FiniteSets, TLC

VARIABLES items, pc, label_files, barcode_files, bulk, last, shown

vars == <<items, pc, label_files, barcode_files, bulk, last, shown>>

(***************************************************************************)
(* Bounds of the model.                                                    *)
(***************************************************************************)
MaxItems == 3
MaxCodeLen == 14
MaxNameLen == 22
MaxPat == 3
MaxQrVersion == 2

(***************************************************************************)
(* Characters and strings.                                                 *)
(***************************************************************************)
IsDigit(c) == c >= 48 /\ c <= 57
IsUpper(c) == c >= 65 /\ c <= 90
IsLower(c) == c >= 97 /\ c <= 122
IsAlnum(c) == IsDigit(c) \/ IsUpper(c) \/ IsLower(c)

AllDigits(s) == \A i \in 1..Len(s) : IsDigit(s[i])

\* str.lower() and str.upper() over ASCII
Lower(s) == [i \in 1..Len(s) |-> IF IsUpper(s[i]) THEN s[i] + 32 ELSE s[i]]
Upper(s) == [i \in 1..Len(s) |-> IF IsLower(s[i]) THEN s[i] - 32 ELSE s[i]]

\* str.strip(): leading and trailing blanks removed
RECURSIVE LStrip(_)
LStrip(s) == IF s # <<>> /\ Head(s) = 32 THEN LStrip(Tail(s)) ELSE s
RECURSIVE RStrip(_)
RStrip(s) ==
    IF s # <<>> /\ s[Len(s)] = 32 THEN RStrip(SubSeq(s, 1, Len(s) - 1)) ELSE s
Strip(s) == RStrip(LStrip(s))

\* s[:n]
Prefix(s, n) == SubSeq(s, 1, IF Len(s) < n THEN Len(s) ELSE n)

\* sub in s
Contains(sub, s) ==
    \E k \in 0..(Len(s) - Len(sub)) : SubSeq(s, k + 1, k + Len(sub)) = sub

\* Python's order on str (by code point, a proper prefix first)
RECURSIVE LexLess(_, _)
LexLess(a, b) ==
    IF a = <<>> THEN b # <<>>
    ELSE IF b = <<>> THEN FALSE
    ELSE IF Head(a) # Head(b) THEN Head(a) < Head(b)
    ELSE LexLess(Tail(a), Tail(b))

\* sorted(set(...)) of strings
SortedSeq(S) ==
    [i \in 1..Cardinality(S) |->
        CHOOSE x \in S : Cardinality({y \in S : LexLess(y, x)}) = i - 1]

\* sum(ord(c) for c in s)
RECURSIVE SumOrd(_)
SumOrd(s) == IF s = <<>> THEN 0 ELSE Head(s) + SumOrd(Tail(s))

\* int(s) of a decimal digit string; ValueError otherwise
IntParses(s) == s # <<>> /\ AllDigits(s)
RECURSIVE IntOf(_)
IntOf(s) ==
    IF s = <<>> THEN 0 ELSE 10 * IntOf(SubSeq(s, 1, Len(s) - 1)) + (s[Len(s)] - 48)

(***************************************************************************)
(* The catalog: rows of items.csv as load_items returns them.              *)
(***************************************************************************)
Widget == <<87, 105, 100, 103, 101, 116>>                     \* "Widget"
NutBolt == <<78, 117, 116, 47, 66, 111, 108, 116>>            \* "Nut/Bolt"
Tape == <<84, 97, 112, 101>>                                  \* "Tape"
Milk == <<77, 105, 108, 107, 32, 49, 76>>                     \* "Milk 1L"
Gizmo == <<71, 105, 122, 109, 111>>                           \* "Gizmo"

CatTools == <<84, 111, 111, 108, 115>>                        \* "Tools"
CatToolsLower == <<116, 111, 111, 108, 115>>                  \* "tools"
CatToolsUpper == <<84, 79, 79, 76, 83>>                       \* "TOOLS"
CatTool == <<84, 111, 111, 108>>                              \* "Tool"
CatFood == <<70, 111, 111, 100>>                              \* "Food"
CatNone == <<>>                                               \* "" (empty field)

Digits12 == <<48, 49, 50, 51, 52, 53, 54, 55, 56, 57, 48, 53>>       \* "012345678905"
Digits13 == <<52, 48, 48, 54, 51, 56, 49, 51, 51, 51, 57, 51, 49>>   \* "4006381333931"
Alpha12 == <<65, 66, 67, 68, 69, 70, 71, 72, 73, 74, 75, 76>>        \* "ABCDEFGHIJKL"
Abc123 == <<65, 66, 67, 49, 50, 51>>                                 \* "ABC123"

Row(id, nm, cat, qty, price, code) ==
    [item_id |-> id, name |-> nm, category |-> cat, quantity |-> qty,
     unit_price |-> price, barcode |-> code]

\* The rows multi-item catalogs are cut from; rows 1 and 2 carry the same
\* item_id and barcode and differ in every other field, row 2 has an empty
\* category field, row 3 a barcode EAN13 rejects.
Master ==
    << Row(<<65, 49>>, Widget, CatTools, <<53>>, <<57, 46, 57, 57>>, Digits12),
       Row(<<65, 49>>, Gizmo, CatNone, <<49>>, <<51, 48, 46, 48, 48>>, Digits12),
       Row(<<66, 50>>, NutBolt, CatToolsLower, <<49, 50>>, <<48, 46, 53, 48>>, Alpha12),
       Row(<<67, 51>>, Tape, CatFood, <<55>>, <<50, 46, 50, 53>>, Abc123),
       Row(<<68, 52>>, Milk, CatFood, <<52, 48>>, <<49, 46, 49, 48>>, Digits13) >>

Window(s, n) == [i \in 1..n |-> Master[((s + i - 2) % Len(Master)) + 1]]

\* Generated barcode values: length len, digits by pattern k, and one letter at
\* position bad (0: none).
Code(len, k, bad) ==
    [i \in 1..len |-> IF i = bad THEN 65 + (k % 26) ELSE 48 + ((i * k) % 10)]

\* Lengths of the generated values: short ones and those around 12 and 13
CodeLens == {1, 6} \cup (11..MaxCodeLen)

Codes ==
    {Code(len, k, bad) : len \in CodeLens, k \in 1..MaxPat, bad \in 0..1}
    \cup {Code(len, k, len) : len \in CodeLens, k \in 1..MaxPat}

\* Generated item names over letters, a digit, space, hyphen, underscore and
\* the characters '/' and '.'.
NameAlphabet == <<87, 105, 32, 45, 95, 47, 55, 46>>
NameOf(len, k) ==
    [i \in 1..len |-> NameAlphabet[((i * k) % Len(NameAlphabet)) + 1]]
\* Lengths of the generated names: short ones and those around 20
NameLens == {0, 1} \cup (18..MaxNameLen)
Names == {NameOf(len, k) : len \in NameLens, k \in 1..MaxPat}

Catalogs ==
    {Window(1, n) : n \in 0..MaxItems}
    \cup {<<Row(<<69, 53>>, Widget, CatTools, <<49>>, <<49, 46, 48, 48>>, c)>> : c \in Codes}
    \cup {<<Row(<<69, 53>>, nm, CatTools, <<49>>, <<49, 46, 48, 48>>, Abc123)>> : nm \in Names}

(***************************************************************************)
(* Files: a directory is a set of [path, content]; saving replaces.        *)
(***************************************************************************)
Paths(dir) == {f.path : f \in dir}
Save(dir, p, c) == {f \in dir : f.path # p} \cup {[path |-> p, content |-> c]}

BarcodesDir == <<98, 97, 114, 99, 111, 100, 101, 115, 47>>              \* "barcodes/"
LabelsPrefix == <<108, 97, 98, 101, 108, 115, 47, 108, 97, 98, 101, 108, 95>>  \* "labels/label_"
Png == <<46, 112, 110, 103>>                                             \* ".png"
Underscore == <<95>>
NoPath == <<>>

(***************************************************************************)
(* generate_barcode                                                        *)
(***************************************************************************)
\* lines 69-75: the symbology
SelectSymbology(barcode_value) ==
    IF Len(barcode_value) = 12 \/ Len(barcode_value) = 13
    THEN "ean13" ELSE "code128"

\* EncodedValue without the [:12] slice of line 72
EncodedValue_NoSlice(barcode_value) == barcode_value

\* lines 69-75: the value handed to the encoder
EncodedValue(barcode_value) ==
    IF Len(barcode_value) = 13 THEN Prefix(barcode_value, 12) ELSE barcode_value

\* The encoder called at line 79: EAN13 takes digits only, Code128 takes
\* printable ASCII.
EncoderAccepts(sym, value) ==
    IF sym = "ean13" THEN AllDigits(value)
    ELSE \A i \in 1..Len(value) : value[i] >= 32 /\ value[i] <= 126

BarcodePath(item) == BarcodesDir \o item.item_id \o Png

\* GenerateBarcode storing the value handed to the encoder back into the row
GenerateBarcode_WritesBack(item, bdir, fault) ==
    LET sym == SelectSymbology(item.barcode)
        value == EncodedValue(item.barcode)
        written == [item EXCEPT !.barcode = value]
    IN  IF ~EncoderAccepts(sym, value)
        THEN [err |-> "IllegalCharacterError", sym |-> sym, value |-> value,
              path |-> NoPath, bdir |-> bdir, item |-> written]
        ELSE IF fault = "barcode_io"
        THEN [err |-> "OSError(barcode)", sym |-> sym, value |-> value,
              path |-> NoPath, bdir |-> bdir, item |-> written]
        ELSE [err |-> "", sym |-> sym, value |-> value,
              path |-> BarcodePath(item),
              bdir |-> Save(bdir, BarcodePath(item), [sym |-> sym, value |-> value]),
              item |-> written]

\* The whole call on the directory bdir; fault is an I/O failure of save().
\* item is the row as the call leaves it: barcode_value is a local name
\* (lines 64, 71), nothing is assigned into the dict.
GenerateBarcode(item, bdir, fault) ==
    LET sym == SelectSymbology(item.barcode)
        value == EncodedValue(item.barcode)
    IN  IF ~EncoderAccepts(sym, value)
        THEN [err |-> "IllegalCharacterError", sym |-> sym, value |-> value,
              path |-> NoPath, bdir |-> bdir, item |-> item]
        ELSE IF fault = "barcode_io"
        THEN [err |-> "OSError(barcode)", sym |-> sym, value |-> value,
              path |-> NoPath, bdir |-> bdir, item |-> item]
        ELSE [err |-> "", sym |-> sym, value |-> value,
              path |-> BarcodePath(item),
              bdir |-> Save(bdir, BarcodePath(item), [sym |-> sym, value |-> value]),
              item |-> item]

(***************************************************************************)
(* generate_label                                                          *)
(***************************************************************************)
ShortNameLen == 20
NameDisplayLimit == 25
NameDisplayKeep == 22
Ellipsis == <<46, 46, 46>>

\* line 159
SafeName(name) ==
    [i \in 1..Len(name) |->
        IF IsAlnum(name[i]) \/ name[i] \in {32, 45, 95} THEN name[i] ELSE 95]

\* line 161
ShortName(name) ==
    IF Len(SafeName(name)) > ShortNameLen
    THEN Prefix(SafeName(name), ShortNameLen) ELSE SafeName(name)

\* LabelPath naming the file by the value handed to the encoder
LabelPath_EncodedBarcode(item) ==
    LabelsPrefix \o item.item_id \o Underscore \o ShortName(item.name)
        \o Underscore \o EncodedValue(item.barcode) \o Png

\* line 163
LabelPath(item) ==
    LabelsPrefix \o item.item_id \o Underscore \o ShortName(item.name)
        \o Underscore \o item.barcode \o Png

\* line 136
NameDisplay(name) ==
    IF Len(name) < NameDisplayLimit THEN name
    ELSE Prefix(name, NameDisplayKeep) \o Ellipsis

\* What is drawn on the label: the text fields and the pasted barcode.
LabelContent(item, b) ==
    [item_id |-> item.item_id, category |-> item.category,
     name |-> NameDisplay(item.name), price |-> item.unit_price,
     sym |-> b.sym, value |-> b.value]

\* GenerateLabel with label.save() moved before the barcode is generated
GenerateLabel_SaveFirst(item, ldir, bdir, fault) ==
    LET b == GenerateBarcode(item, bdir, fault)
        saved == Save(ldir, LabelPath(item), LabelContent(item, b))
    IN  IF b.err # ""
        THEN [err |-> b.err, path |-> NoPath, ldir |-> saved, bdir |-> b.bdir,
              sym |-> b.sym, value |-> b.value, item |-> b.item]
        ELSE [err |-> "", path |-> LabelPath(item), ldir |-> saved,
              bdir |-> b.bdir, sym |-> b.sym, value |-> b.value, item |-> b.item]

\* GenerateLabel never writing over a label: a second file beside the first
GenerateLabel_NoOverwrite(item, ldir, bdir, fault) ==
    LET b == GenerateBarcode(item, bdir, fault)
        fresh == IF LabelPath(item) \in Paths(ldir)
                 THEN LabelPath(item) \o <<46, 49>>
                 ELSE LabelPath(item)
    IN  IF b.err # ""
        THEN [err |-> b.err, path |-> NoPath, ldir |-> ldir, bdir |-> b.bdir,
              sym |-> b.sym, value |-> b.value, item |-> b.item]
        ELSE IF fault = "label_io"
        THEN [err |-> "OSError(label)", path |-> NoPath, ldir |-> ldir,
              bdir |-> b.bdir, sym |-> b.sym, value |-> b.value, item |-> b.item]
        ELSE [err |-> "", path |-> fresh,
              ldir |-> Save(ldir, fresh, LabelContent(item, b)),
              bdir |-> b.bdir, sym |-> b.sym, value |-> b.value, item |-> b.item]

\* The whole call on the directories; fault is an I/O failure of a save().
GenerateLabel(item, ldir, bdir, fault) ==
    LET b == GenerateBarcode(item, bdir, fault)
    IN  IF b.err # ""
        THEN [err |-> b.err, path |-> NoPath, ldir |-> ldir, bdir |-> b.bdir,
              sym |-> b.sym, value |-> b.value, item |-> b.item]
        ELSE IF fault = "label_io"
        THEN [err |-> "OSError(label)", path |-> NoPath, ldir |-> ldir,
              bdir |-> b.bdir, sym |-> b.sym, value |-> b.value, item |-> b.item]
        ELSE [err |-> "", path |-> LabelPath(item),
              ldir |-> Save(ldir, LabelPath(item), LabelContent(item, b)),
              bdir |-> b.bdir, sym |-> b.sym, value |-> b.value, item |-> b.item]

Faults == {"none", "barcode_io", "label_io"}

(***************************************************************************)
(* bulk_generate_labels                                                    *)
(***************************************************************************)
\* A set of catalog positions in catalog order
IdxSeq(S) ==
    [k \in 1..Cardinality(S) |->
        CHOOSE x \in S : Cardinality({y \in S : y < x}) = k - 1]

\* `if category_filter:` (line 174): None and "" are both false
FilterApplies(given, filter) == given /\ filter # <<>>

\* ItemsToProcess keeping one row per item_id
ItemsToProcess_Dedup(rows, given, filter) ==
    IdxSeq({i \in 1..Len(rows) :
              /\ FilterApplies(given, filter) =>
                    Lower(rows[i].category) = Lower(filter)
              /\ \A j \in 1..(i - 1) : rows[j].item_id # rows[i].item_id})

\* lines 174-179, as positions in self.items
ItemsToProcess(rows, given, filter) ==
    IF FilterApplies(given, filter)
    THEN IdxSeq({i \in 1..Len(rows) : Lower(rows[i].category) = Lower(filter)})
    ELSE IdxSeq(1..Len(rows))

NoBulk ==
    [phase |-> "idle", given |-> FALSE, filter |-> <<>>, todo |-> <<>>,
     i |-> 0, generated_paths |-> <<>>, attempts |-> <<>>, ok_idx |-> <<>>,
     errors |-> <<>>, ret |-> "none"]

\* lines 174-195: the call up to the loop; an empty selection returns None
BulkEnter(given, filter) ==
    LET todo == ItemsToProcess(items, given, filter)
    IN  IF Len(todo) = 0
        THEN [NoBulk EXCEPT !.phase = "returned", !.given = given,
                            !.filter = filter, !.ret = "None"]
        ELSE [NoBulk EXCEPT !.phase = "loop", !.given = given,
                            !.filter = filter, !.todo = todo, !.i = 1]

\* lines 196-203: one iteration of the loop on the run b, generate_label
\* having returned r
BulkIterate(b, r) ==
    IF r.err = ""
    THEN [b EXCEPT !.i = b.i + 1,
                   !.attempts = Append(b.attempts, b.todo[b.i]),
                   !.generated_paths = Append(b.generated_paths, r.path),
                   !.ok_idx = Append(b.ok_idx, b.todo[b.i])]
    ELSE [b EXCEPT !.i = b.i + 1,
                   !.attempts = Append(b.attempts, b.todo[b.i]),
                   !.errors = Append(b.errors, [idx |-> b.todo[b.i], err |-> r.err])]

(***************************************************************************)
(* display_barcode_ascii: the synthetic bar pattern                        *)
(***************************************************************************)
Marker == <<9608, 32, 9608>>                       \* lines 273, 284
Bars(n) == [i \in 1..n |-> 9608]
Blanks(n) == [i \in 1..n |-> 32]

\* line 277
DigitOf(c) == IF IsDigit(c) THEN c - 48 ELSE c % 10

\* lines 276-281
RECURSIVE DataBars(_, _)
DataBars(code, hash_value) ==
    IF code = <<>> THEN <<>>
    ELSE Bars(1 + ((DigitOf(Head(code)) + hash_value) % 3))
            \o Blanks(1 + (DigitOf(Head(code)) % 2))
            \o DataBars(Tail(code), hash_value)

\* BarPattern hashing the item name along with the barcode
BarPattern_NameHash(item) ==
    LET barcode_value == item.barcode
        hash_value == SumOrd(barcode_value \o item.name)
    IN  Marker \o DataBars(barcode_value, hash_value) \o Marker

\* lines 266-287: bar_pattern
BarPattern(item) ==
    LET barcode_value == item.barcode
        hash_value == SumOrd(barcode_value)
    IN  Marker \o DataBars(barcode_value, hash_value) \o Marker

AsciiWidth == 50
AsciiHeight == 15

\* line 290: floor division, negative when the pattern is longer than width
Padding(bar_pattern) == (AsciiWidth - Len(bar_pattern)) \div 2

\* line 291: " " * padding is "" for a negative padding
PaddedPattern(bar_pattern) ==
    Blanks(Padding(bar_pattern)) \o bar_pattern \o Blanks(Padding(bar_pattern))

\* lines 303-304: the rows printed between the two value lines
PatternRows(bar_pattern) ==
    [k \in 1..AsciiHeight |-> PaddedPattern(bar_pattern)]

\* lines 295, 308: the horizontal run of the frame
Frame == [i \in 1..AsciiWidth |-> 9472]

\* lines 298-299: the value line, its two vertical bars included
ValueLine(barcode_value) ==
    LET left == <<9474>> \o Blanks((AsciiWidth - Len(barcode_value)) \div 2)
                         \o barcode_value
    IN  left \o Blanks(AsciiWidth - Len(left) + 1) \o <<9474>>

(***************************************************************************)
(* generate_qr_code and display_qr_code_terminal                           *)
(***************************************************************************)
QrPrefix == <<81, 82, 95>>                                    \* "QR_"
QrPath(item) == BarcodesDir \o QrPrefix \o item.item_id \o Png

\* lines 219-220: "ID:..\nName:..\nCategory:..\nQuantity:..\nPrice:..\nBarcode:.."
QrData(item) ==
    <<73, 68, 58>> \o item.item_id
        \o <<10, 78, 97, 109, 101, 58>> \o item.name
        \o <<10, 67, 97, 116, 101, 103, 111, 114, 121, 58>> \o item.category
        \o <<10, 81, 117, 97, 110, 116, 105, 116, 121, 58>> \o item.quantity
        \o <<10, 80, 114, 105, 99, 101, 58>> \o item.unit_price
        \o <<10, 66, 97, 114, 99, 111, 100, 101, 58>> \o item.barcode

\* lines 223-233: the image of a QR code of the given version, box_size 10 and
\* border 4: a square of (17 + 4 * version + 2 * 4) * 10 pixels
QrImage(version) ==
    [w |-> (17 + 4 * version + 2 * 4) * 10, h |-> (17 + 4 * version + 2 * 4) * 10]

\* The whole call of generate_qr_code; fault "qr_io" is a failure of
\* qr.make or img.save.
GenerateQrCode(item, bdir, fault) ==
    IF fault = "qr_io"
    THEN [err |-> "OSError(qr)", path |-> NoPath, bdir |-> bdir, item |-> item]
    ELSE [err |-> "", path |-> QrPath(item),
          bdir |-> Save(bdir, QrPath(item), [sym |-> "qr", value |-> QrData(item)]),
          item |-> item]

QrThumb == 40
TermWidth == 80
GlyphSplit == 128
Chars == << <<32, 32>>, <<9608, 9608>> >>                     \* line 344

\* Image.resize((w, h))
Resize(img, w, h) == [img EXCEPT !.w = w, !.h = h]

\* TermSize taking the width of the grid from the source image
TermSize_SourceWidth(img) ==
    [w |-> img.w \div 4, h |-> (img.h * (img.w \div 4) * 55) \div (img.w * 100)]

\* lines 331-337: the size of the printed grid. aspect_ratio * new_width * 0.55
\* is computed in integers; int() truncates.
TermSize(img) ==
    LET small == Resize(img, QrThumb, QrThumb)
        width == small.w
        height == small.h
        new_width == TermWidth
        new_height == (height * new_width * 55) \div (width * 100)
    IN  [w |-> new_width, h |-> new_height]

\* line 348: chars[pixel // 128]
GlyphIndex(pixel) == pixel \div GlyphSplit

\* The intensities the resized grayscale image may hold: black and white
\* modules and the greys resampling puts between them
Palettes == { {0, 1, 127, 128, 254, 255} }

\* lines 338-348: the printed rows, each given by its number of cells, and the
\* glyphs used, for an image whose pixels take the intensities of palette.
QrGrid(img, palette) ==
    LET size == TermSize(img)
        final == Resize(Resize(img, QrThumb, QrThumb), size.w, size.h)
        n_pixels == final.w * final.h
        starts == {size.w * k : k \in 0..((n_pixels - 1) \div size.w)}
    IN  [rows |-> [k \in 1..Cardinality(starts) |-> size.w],
         glyphs |-> {Chars[GlyphIndex(p) + 1] : p \in palette},
         src |-> img.w]

NoGrid == [rows |-> <<>>, glyphs |-> {}, src |-> 0]

QrFaults == {"none", "qr_io", "render"}

(***************************************************************************)
(* Menu input                                                              *)
(***************************************************************************)
\* What the user may type at an item id prompt: "a1", " B2 ", "c3", "e5", "ZZ"
TypedIds ==
    { <<97, 49>>, <<32, 66, 50, 32>>, <<99, 51>>, <<101, 53>>, <<90, 90>> }

\* What the user may type at the name prompt: "WIDGET", " t", "zzz"
TypedNames == { <<87, 73, 68, 71, 69, 84>>, <<32, 116>>, <<122, 122, 122>> }

\* What the user may type at the bulk menu prompt: "1", " 2", "3", "x"
TypedChoices == { <<49>>, <<32, 50>>, <<51>>, <<120>> }

\* What the user may type at the category number prompt: "1", " 2", "3", "0",
\* "9", "x"
TypedNumbers == { <<49>>, <<32, 50>>, <<51>>, <<48>>, <<57>>, <<120>> }

\* The filters bulk_generate_labels is called with directly: "Tools", "TOOLS",
\* "Tool", "Food", ""
DirectFilters == {CatTools, CatToolsUpper, CatTool, CatFood, CatNone}

\* `for item in self.items: if item['item_id'] == item_id` : the first match
FindById(item_id) ==
    LET hits == {i \in 1..Len(items) : items[i].item_id = item_id}
    IN  IF hits = {} THEN 0 ELSE CHOOSE i \in hits : \A j \in hits : i <= j

(***************************************************************************)
(* State                                                                   *)
(***************************************************************************)
Out(op) ==
    [op |-> op, idx |-> 0, err |-> "", sym |-> "", value |-> <<>>,
     path |-> NoPath, note |-> "", n |-> 0, grid |-> NoGrid]

OutOf(op, idx, r) ==
    [op |-> op, idx |-> idx, err |-> r.err, sym |-> r.sym, value |-> r.value,
     path |-> r.path, note |-> "", n |-> 0, grid |-> NoGrid]

\* The outcome of a generate_label call on the labels directory ldir; the
\* note tells that label.save() wrote over a file that was already there.
LabelOut(op, idx, r, ldir) ==
    [OutOf(op, idx, r) EXCEPT
        !.note = IF r.err = "" /\ r.path \in Paths(ldir) THEN "replaced" ELSE ""]

\* __init__ (lines 37-39): load_items either returns the rows or exits.
Init ==
    /\ items \in Catalogs
    /\ pc \in {"menu", "fatal"}
    /\ pc = "fatal" => items = <<>>
    /\ label_files = {}
    /\ barcode_files = {}
    /\ bulk = NoBulk
    /\ last = Out("load_items")
    /\ shown = <<>>

Quiet == bulk' = NoBulk /\ shown' = <<>>

\* generate_barcode(item) called on the loaded manager
GenerateBarcodeCall ==
    /\ pc = "menu"
    /\ \E idx \in 1..Len(items), fault \in Faults \ {"label_io"} :
        LET r == GenerateBarcode(items[idx], barcode_files, fault)
        IN  /\ barcode_files' = r.bdir
            /\ items' = [items EXCEPT ![idx] = r.item]
            /\ last' = OutOf("generate_barcode", idx, r)
    /\ Quiet
    /\ UNCHANGED <<pc, label_files>>

\* generate_label(item) called on the loaded manager
GenerateLabelCall ==
    /\ pc = "menu"
    /\ \E idx \in 1..Len(items), fault \in Faults :
        LET r == GenerateLabel(items[idx], label_files, barcode_files, fault)
        IN  /\ barcode_files' = r.bdir
            /\ label_files' = r.ldir
            /\ items' = [items EXCEPT ![idx] = r.item]
            /\ last' = LabelOut("generate_label", idx, r, label_files)
    /\ Quiet
    /\ UNCHANGED pc

\* bulk_generate_labels(category_filter) called on the loaded manager
BulkGenerateLabelsCall ==
    /\ pc = "menu"
    /\ \E given \in BOOLEAN, filter \in DirectFilters :
        /\ given \/ filter = <<>>
        /\ bulk' = BulkEnter(given, filter)
    /\ pc' = IF bulk'.phase = "loop" THEN "bulk" ELSE "menu"
    /\ last' = Out("bulk_generate_labels")
    /\ shown' = <<>>
    /\ UNCHANGED <<items, label_files, barcode_files>>

\* lines 196-203: the next item of a running batch
BulkStep ==
    /\ pc = "bulk"
    /\ bulk.i <= Len(bulk.todo)
    /\ \E fault \in Faults :
        LET r == GenerateLabel(items[bulk.todo[bulk.i]], label_files,
                               barcode_files, fault)
        IN  /\ barcode_files' = r.bdir
            /\ label_files' = r.ldir
            /\ items' = [items EXCEPT ![bulk.todo[bulk.i]] = r.item]
            /\ bulk' = BulkIterate(bulk, r)
            /\ last' = LabelOut("generate_label", bulk.todo[bulk.i], r, label_files)
    /\ UNCHANGED <<pc, shown>>

\* lines 205-210: the loop is over, the paths are returned
BulkReturn ==
    /\ pc = "bulk"
    /\ bulk.i > Len(bulk.todo)
    /\ bulk' = [bulk EXCEPT !.phase = "returned", !.ret = "list"]
    /\ pc' = "menu"
    /\ last' = Out("bulk_generate_labels")
    /\ UNCHANGED <<items, label_files, barcode_files, shown>>

\* display_barcode_ascii(item) called on the loaded manager: the barcode image
\* is generated first (line 258), then the pattern is built and printed.
DisplayBarcodeAscii ==
    /\ pc = "menu"
    /\ \E idx \in 1..Len(items), fault \in Faults \ {"label_io"} :
        LET r == GenerateBarcode(items[idx], barcode_files, fault)
            d == [idx |-> idx, barcode |-> items[idx].barcode,
                  pattern |-> BarPattern(items[idx]),
                  frame |-> Frame,
                  value_line |-> ValueLine(items[idx].barcode),
                  rows |-> PatternRows(BarPattern(items[idx]))]
        IN  /\ barcode_files' = r.bdir
            /\ items' = [items EXCEPT ![idx] = r.item]
            /\ last' = OutOf("display_barcode_ascii", idx, r)
            /\ shown' = IF r.err # "" THEN shown
                        ELSE IF Len(shown) = 2 THEN <<shown[2], d>>
                        ELSE Append(shown, d)
    /\ bulk' = NoBulk
    /\ UNCHANGED <<pc, label_files>>

\* display_qr_code_terminal(item) called on the loaded manager (lines 318-356):
\* generate_qr_code runs before the try; what fails inside the try is reported
\* and the path returned.
DisplayQrCodeTerminal ==
    /\ pc = "menu"
    /\ \E idx \in 1..Len(items), fault \in QrFaults :
        \E version \in (IF fault = "none" THEN 1..MaxQrVersion ELSE {1}),
           palette \in (IF fault = "none" THEN Palettes ELSE {{}}) :
            LET q == GenerateQrCode(items[idx], barcode_files, fault)
                o == [Out("display_qr_code_terminal") EXCEPT !.idx = idx]
            IN  /\ barcode_files' = q.bdir
                /\ items' = [items EXCEPT ![idx] = q.item]
                /\ last' =
                    IF q.err # ""
                    THEN [o EXCEPT !.err = q.err, !.note = "raised"]
                    ELSE IF fault = "render"
                    THEN [o EXCEPT !.path = q.path,
                                   !.note = "Error displaying QR code"]
                    ELSE [o EXCEPT !.path = q.path, !.note = "printed",
                                   !.grid = QrGrid(QrImage(version), palette)]
    /\ Quiet
    /\ UNCHANGED <<pc, label_files>>

\* main_menu choice '1'
ListAllItems ==
    /\ pc = "menu"
    /\ last' = [Out("list_all_items") EXCEPT !.n = Len(items)]
    /\ Quiet
    /\ UNCHANGED <<items, pc, label_files, barcode_files>>

\* main_menu choice '2'
SearchById ==
    /\ pc = "menu"
    /\ \E typed \in TypedIds :
        LET idx == FindById(Upper(Strip(typed)))
        IN  last' = [Out("search_by_id") EXCEPT
                        !.idx = idx,
                        !.note = IF idx = 0 THEN "not found" ELSE "details"]
    /\ Quiet
    /\ UNCHANGED <<items, pc, label_files, barcode_files>>

\* main_menu choice '3'
SearchByName ==
    /\ pc = "menu"
    /\ \E typed \in TypedNames :
        LET name == Lower(Strip(typed))
            found == {i \in 1..Len(items) : Contains(name, Lower(items[i].name))}
        IN  last' = [Out("search_by_name") EXCEPT
                        !.n = Cardinality(found),
                        !.note = IF found = {} THEN "not found" ELSE "listed"]
    /\ Quiet
    /\ UNCHANGED <<items, pc, label_files, barcode_files>>

\* main_menu choice '4'
ItemDetailsMenu ==
    /\ pc = "menu"
    /\ \E typed \in TypedIds :
        LET idx == FindById(Upper(Strip(typed)))
        IN  last' = [Out("item_details_menu") EXCEPT
                        !.idx = idx,
                        !.note = IF idx = 0 THEN "not found" ELSE "details"]
    /\ Quiet
    /\ UNCHANGED <<items, pc, label_files, barcode_files>>

\* main_menu choice '5': label_generation_menu (lines 610-635). generate_label
\* is called outside any try, so what it raises leaves main_menu too.
LabelGenerationMenu ==
    /\ pc = "menu"
    /\ \E typed \in TypedIds, fault \in Faults :
        LET idx == FindById(Upper(Strip(typed)))
            r == GenerateLabel(items[idx], label_files, barcode_files, fault)
        IN  \E view \in (IF idx # 0 /\ r.err = "" THEN {"y", "n"} ELSE {"n"}) :
            IF idx = 0
                THEN /\ last' = [Out("label_generation_menu") EXCEPT !.note = "not found"]
                     /\ UNCHANGED <<items, pc, label_files, barcode_files>>
                ELSE /\ barcode_files' = r.bdir
                     /\ label_files' = r.ldir
                     /\ items' = [items EXCEPT ![idx] = r.item]
                     /\ pc' = IF r.err # "" THEN "crashed" ELSE "menu"
                     /\ last' = [OutOf("label_generation_menu", idx, r) EXCEPT
                                    !.note = IF r.err # "" THEN "traceback" ELSE view]
    /\ Quiet

\* main_menu choice '6': bulk_label_generation_menu (lines 637-670)
BulkLabelGenerationMenu ==
    /\ pc = "menu"
    /\ \E choice \in TypedChoices :
      \E cat_choice \in (IF Strip(choice) = <<50>> THEN TypedNumbers ELSE {<<>>}) :
        LET categories == SortedSeq({items[i].category : i \in 1..Len(items)})
            cat_index == IntOf(Strip(cat_choice)) - 1
        IN  IF Strip(choice) = <<49>>
            THEN /\ bulk' = BulkEnter(FALSE, <<>>)
                 /\ last' = Out("bulk_generate_labels")
            ELSE IF Strip(choice) = <<50>>
            THEN IF ~IntParses(Strip(cat_choice))
                 THEN /\ bulk' = NoBulk
                      /\ last' = [Out("bulk_label_generation_menu") EXCEPT
                                     !.note = "Please enter a valid number."]
                 ELSE IF 0 <= cat_index /\ cat_index < Len(categories)
                 THEN /\ bulk' = BulkEnter(TRUE, categories[cat_index + 1])
                      /\ last' = Out("bulk_generate_labels")
                 ELSE /\ bulk' = NoBulk
                      /\ last' = [Out("bulk_label_generation_menu") EXCEPT
                                     !.note = "Invalid category number."]
            ELSE /\ bulk' = NoBulk
                 /\ last' = [Out("bulk_label_generation_menu") EXCEPT
                                !.note = IF Strip(choice) = <<51>>
                                         THEN "return" ELSE "Invalid choice."]
    /\ pc' = IF bulk'.phase = "loop" THEN "bulk" ELSE "menu"
    /\ shown' = <<>>
    /\ UNCHANGED <<items, label_files, barcode_files>>

\* main_menu choice '7'
ExitMenu ==
    /\ pc = "menu"
    /\ pc' = "exited"
    /\ last' = Out("exit")
    /\ Quiet
    /\ UNCHANGED <<items, label_files, barcode_files>>

\* main_menu, any other choice
InvalidChoice ==
    /\ pc = "menu"
    /\ last' = [Out("main_menu") EXCEPT !.note = "Invalid choice."]
    /\ Quiet
    /\ UNCHANGED <<items, pc, label_files, barcode_files>>

Next ==
    \/ GenerateBarcodeCall
    \/ GenerateLabelCall
    \/ BulkGenerateLabelsCall
    \/ BulkStep
    \/ BulkReturn
    \/ DisplayBarcodeAscii
    \/ DisplayQrCodeTerminal
    \/ ListAllItems
    \/ SearchById
    \/ SearchByName
    \/ ItemDetailsMenu
    \/ LabelGenerationMenu
    \/ BulkLabelGenerationMenu
    \/ ExitMenu
    \/ InvalidChoice

Spec == Init /\ [][Next]_vars

(***************************************************************************)
(* Claims                                                                  *)
(***************************************************************************)
\* The item the last operation worked on
LastItem == items[last.idx]
RanBarcode == last.op \in {"generate_barcode", "generate_label"} /\ last.idx > 0
FixedNumericShape(code) == Len(code) \in {12, 13} /\ AllDigits(code)

\* C1: whenever generate_barcode has run on an item whose barcode is 12 or 13
\* characters long and all digits, it selected EAN13 and handed the encoder
\* the first 12 characters of the raw value (12 digits unchanged, 13 digits
\* without the last), a value of length exactly 12.
C1_FixedNumericTwelve ==
    (RanBarcode /\ FixedNumericShape(LastItem.barcode)) =>
        /\ last.sym = "ean13"
        /\ Len(last.value) = 12
        /\ \A i \in 1..12 : last.value[i] = LastItem.barcode[i]

C1_Witness ==
    /\ last.op = "generate_barcode" /\ last.idx > 0
    /\ Len(LastItem.barcode) = 13 /\ AllDigits(LastItem.barcode)
    /\ last.err = "" /\ Len(last.value) = 12

\* C2: whenever generate_barcode has run on an item whose non-empty barcode is
\* not (12 or 13 characters, all digits), it selected Code128 and handed the
\* encoder the raw value unchanged.
C2_GeneralOtherwise ==
    (RanBarcode /\ LastItem.barcode # <<>> /\ ~FixedNumericShape(LastItem.barcode)) =>
        /\ last.sym = "code128"
        /\ last.value = LastItem.barcode

\* Equality of two strings up to the case of their letters, whole string
EqualIgnoringCase(a, b) ==
    /\ Len(a) = Len(b)
    /\ \A i \in 1..Len(a) :
        \/ a[i] = b[i]
        \/ IsUpper(a[i]) /\ b[i] = a[i] + 32
        \/ IsLower(a[i]) /\ b[i] = a[i] - 32

\* The catalog positions matching the filter of the current batch
Matching ==
    {i \in 1..Len(items) :
        bulk.given => EqualIgnoringCase(items[i].category, bulk.filter)}

Range(q) == {q[k] : k \in 1..Len(q)}
Increasing(q) == \A j, k \in 1..Len(q) : j < k => q[j] < q[k]
Returned == bulk.phase = "returned"

\* C3: when bulk_generate_labels has returned, the number of attempted items
\* equals the number of catalog items matching the filter, and every
\* succeeded path comes from an attempted item (so succeeded <= attempted).
C3_AttemptedIsMatching ==
    Returned =>
        /\ Len(bulk.attempts) = Cardinality(Matching)
        /\ Range(bulk.ok_idx) \subseteq Range(bulk.attempts)
        /\ Len(bulk.generated_paths) <= Len(bulk.attempts)

\* The same counts relative to the rows the call selected (items_to_process).
BulkCountsOfSelection ==
    Returned =>
        /\ Len(bulk.attempts) = Len(bulk.todo)
        /\ Range(bulk.ok_idx) \subseteq Range(bulk.attempts)
        /\ Len(bulk.generated_paths) <= Len(bulk.attempts)

\* C4: when a batch in which some generate_label failed has returned, each
\* failure is recorded for its item, every matching item was processed, and
\* the returned paths are exactly those of the matching items whose
\* composition succeeded.
C4_FailureIsolated ==
    (Returned /\ bulk.errors # <<>>) =>
        /\ Range(bulk.attempts) = Matching
        /\ {e.idx : e \in Range(bulk.errors)} = Matching \ Range(bulk.ok_idx)
        /\ Range(bulk.ok_idx) \subseteq Matching
        /\ bulk.generated_paths =
              [k \in 1..Len(bulk.ok_idx) |-> LabelPath(items[bulk.ok_idx[k]])]

\* The same isolation relative to the rows the call selected: a failure is
\* recorded, leaves the accumulated paths as they were and does not stop the
\* loop.
BulkIsolation ==
    /\ Returned =>
        /\ Range(bulk.attempts) = Range(bulk.todo)
        /\ {e.idx : e \in Range(bulk.errors)} = Range(bulk.todo) \ Range(bulk.ok_idx)
        /\ bulk.generated_paths =
              [k \in 1..Len(bulk.ok_idx) |-> LabelPath(items[bulk.ok_idx[k]])]
    /\ (pc = "bulk" /\ last.op = "generate_label" /\ last.err # "") =>
        /\ bulk.errors # <<>>
        /\ bulk.errors[Len(bulk.errors)].idx = last.idx
        /\ last.idx \notin Range(bulk.ok_idx)

\* C5: the items of a batch are attempted one at a time in catalog order:
\* what has been attempted so far is the matching rows in increasing catalog
\* position, each attempt finished (a path or an error) before the next, rows
\* sharing an item_id are each attempted, the returned paths are in the
\* order of their rows, and at the return every matching row was attempted.
C5_SequentialInOrder ==
    bulk.phase \in {"loop", "returned"} =>
        /\ Increasing(bulk.attempts)
        /\ Increasing(bulk.ok_idx)
        /\ Len(bulk.attempts) = Len(bulk.generated_paths) + Len(bulk.errors)
        /\ bulk.phase = "loop" => Len(bulk.attempts) = bulk.i - 1
        /\ \A k \in 1..Len(bulk.attempts) : \A m \in Matching :
              m < bulk.attempts[k] => m \in Range(SubSeq(bulk.attempts, 1, k - 1))
        /\ bulk.generated_paths =
              [k \in 1..Len(bulk.ok_idx) |-> LabelPath(items[bulk.ok_idx[k]])]
        /\ Returned => Matching \subseteq Range(bulk.attempts)

C5_Witness ==
    /\ Returned
    /\ Len(bulk.attempts) = 3 /\ Len(bulk.generated_paths) = 2
    /\ \E j, k \in Range(bulk.ok_idx) :
          j < k /\ items[j].item_id = items[k].item_id

\* C6: the rows a batch processes are, with a filter supplied, exactly the
\* rows whose category equals the filter up to case (the whole string), and
\* with no filter every row of the catalog.
C6_FilterExact ==
    bulk.phase \in {"loop", "returned"} =>
        /\ Range(bulk.todo) = Matching
        /\ Increasing(bulk.todo)

\* C7: a failure of generate_label in label_generation_menu is caught and
\* reported, and control is back in the main menu loop; after a successful
\* load the session ends only by Exit.
C7_MenuSurvivesFailure ==
    /\ (last.op = "label_generation_menu" /\ last.err # "") => pc = "menu"
    /\ pc # "crashed"

BarcodeErrors == {"IllegalCharacterError", "OSError(barcode)"}
RanLabel == last.op \in {"generate_label", "label_generation_menu"} /\ last.idx > 0

\* C8: a generate_label call in which barcode generation fails ends with that
\* same error, returns no path and leaves the set of label files as it was;
\* a value the encoder rejects always ends the call this way.
C8_NoLabelOnBarcodeFailure ==
    [][ /\ (RanLabel' /\ last'.err \in BarcodeErrors) =>
            /\ label_files' = label_files
            /\ last'.path = NoPath
        /\ (RanLabel' /\ ~EncoderAccepts(last'.sym, last'.value)) =>
            /\ last'.err = "IllegalCharacterError"
            /\ label_files' = label_files ]_vars

C8_Witness ==
    /\ last.op = "generate_label" /\ last.idx > 0
    /\ last.err = "IllegalCharacterError"
    /\ label_files # {}
    /\ \A f \in label_files : f.content.item_id # LastItem.item_id

\* C9: the path generate_label returns is
\* labels/label_<item_id>_<short_name>_<barcode>.png, short_name being the
\* first 20 characters of the name with every character that is not
\* alphanumeric, space, hyphen or underscore replaced by an underscore, and
\* <barcode> the raw barcode of the item (all 13 characters of a 13-character
\* one); the file is at that path.
C9_Short(name) ==
    [i \in 1..(IF Len(name) > 20 THEN 20 ELSE Len(name)) |->
        IF \/ name[i] \in 48..57 \/ name[i] \in 65..90 \/ name[i] \in 97..122
           \/ name[i] = 32 \/ name[i] = 45 \/ name[i] = 95
        THEN name[i] ELSE 95]

C9_LabelPathFormat ==
    (RanLabel /\ last.err = "") =>
        /\ last.path = LabelsPrefix \o LastItem.item_id \o <<95>>
                          \o C9_Short(LastItem.name) \o <<95>>
                          \o LastItem.barcode \o Png
        /\ last.path \in Paths(label_files)

C9_Witness ==
    /\ RanLabel /\ last.err = ""
    /\ Len(LastItem.name) > 20
    /\ \E i \in 1..20 : LastItem.name[i] = 47 /\ last.path[Len(LabelsPrefix) + Len(LastItem.item_id) + 1 + i] = 95
    /\ \E i \in 1..20 : LastItem.name[i] = 32

C9_WitnessRawBarcode ==
    /\ RanLabel /\ last.err = ""
    /\ Len(LastItem.barcode) = 13 /\ Len(last.value) = 12

\* C10: the pattern display_barcode_ascii builds is the marker, then for each
\* character of the barcode 1 + ((digit + hash) mod 3) filled glyphs and
\* 1 + (digit mod 2) blank glyphs, then the marker, hash being the sum of the
\* code points of the barcode; two displays of the same barcode value show
\* the same pattern whatever the other fields of their items.
C10_Digit(c) == IF c \in 48..57 THEN c - 48 ELSE c % 10
C10_Hash(code) ==
    LET RECURSIVE Sum(_)
        Sum(n) == IF n = 0 THEN 0 ELSE Sum(n - 1) + code[n]
    IN  Sum(Len(code))
C10_BarWidth(code, k) == 1 + ((C10_Digit(code[k]) + C10_Hash(code)) % 3)
C10_SpaceWidth(code, k) == 1 + (C10_Digit(code[k]) % 2)
C10_Offset(code, k) ==
    LET RECURSIVE Before(_)
        Before(j) ==
            IF j = 0 THEN 3
            ELSE Before(j - 1) + C10_BarWidth(code, j) + C10_SpaceWidth(code, j)
    IN  Before(k - 1)
C10_HasShape(pattern, code) ==
    /\ Len(pattern) = C10_Offset(code, Len(code) + 1) + 3
    /\ SubSeq(pattern, 1, 3) = <<9608, 32, 9608>>
    /\ SubSeq(pattern, Len(pattern) - 2, Len(pattern)) = <<9608, 32, 9608>>
    /\ \A k \in 1..Len(code) :
        /\ \A t \in 1..C10_BarWidth(code, k) :
              pattern[C10_Offset(code, k) + t] = 9608
        /\ \A t \in 1..C10_SpaceWidth(code, k) :
              pattern[C10_Offset(code, k) + C10_BarWidth(code, k) + t] = 32

C10_PatternDeterministic ==
    /\ \A k \in 1..Len(shown) : C10_HasShape(shown[k].pattern, shown[k].barcode)
    /\ \A j, k \in 1..Len(shown) :
          shown[j].barcode = shown[k].barcode => shown[j].pattern = shown[k].pattern

C10_Witness ==
    /\ Len(shown) = 2
    /\ shown[1].idx # shown[2].idx
    /\ shown[1].barcode = shown[2].barcode
    /\ items[shown[1].idx].name # items[shown[2].idx].name
    /\ items[shown[1].idx].category # items[shown[2].idx].category
    /\ shown[1].pattern = shown[2].pattern
    /\ Len(shown[1].pattern) > 6

C10_WitnessLetters ==
    /\ Len(shown) >= 1
    /\ \E i \in 1..Len(shown[1].barcode) : ~(shown[1].barcode[i] \in 48..57)
    /\ \E i \in 1..Len(shown[1].barcode) : shown[1].barcode[i] \in 48..57
Printed == last.op = "display_qr_code_terminal" /\ last.note = "printed"

\* C11: when display_qr_code_terminal has printed the grid, every row has
\* exactly 80 cells whatever the size of the source image, the number of rows
\* is the same (44) for every source image, and every cell is one of the two
\* glyphs, pixel // 128 being 0 or 1 for every intensity 0..255.
C11_FixedGrid ==
    Printed =>
        /\ \A k \in 1..Len(last.grid.rows) : last.grid.rows[k] = 80
        /\ Len(last.grid.rows) = 44
        /\ last.grid.glyphs # {}
        /\ last.grid.glyphs \subseteq { <<32, 32>>, <<9608, 9608>> }
        /\ \A p \in 0..255 : GlyphIndex(p) \in {0, 1}
        /\ \A p \in 0..255 : GlyphIndex(p) = (IF p < 128 THEN 0 ELSE 1)

C11_Witness ==
    /\ Printed
    /\ last.grid.src > 290
    /\ Cardinality(last.grid.glyphs) = 2
    /\ Len(last.grid.rows) > 0

\* The label files that show the text fields of the row
C12_LabelsOf(item) ==
    {f \in label_files :
        /\ f.content.item_id = item.item_id
        /\ f.content.category = item.category
        /\ f.content.price = item.unit_price
        /\ f.content.name =
              (IF Len(item.name) > 25
               THEN SubSeq(item.name, 1, 22) \o <<46, 46, 46>> ELSE item.name)}

C12_BarcodeImagesOf(item) ==
    {f \in barcode_files : f.path = BarcodesDir \o item.item_id \o Png}

\* C12: generate_label is idempotent on the file system. After every
\* successful call there is exactly one label file for the item, at the
\* returned path, and exactly one barcode image under the item id, both
\* embedding the value the call encoded; and a successful call that follows a
\* successful call on the same row returns the same path and leaves both
\* directories (paths and contents) exactly as the first call left them.
C12_LabelIdempotent ==
    /\ [](  (RanLabel /\ last.err = "") =>
              /\ Cardinality(C12_LabelsOf(LastItem)) = 1
              /\ \A f \in C12_LabelsOf(LastItem) :
                    f.path = last.path /\ f.content.value = last.value
              /\ Cardinality(C12_BarcodeImagesOf(LastItem)) = 1
              /\ \A f \in C12_BarcodeImagesOf(LastItem) :
                    f.content.value = last.value )
    /\ [][ ( /\ RanLabel /\ last.err = ""
             /\ RanLabel' /\ last'.err = ""
             /\ last'.idx = last.idx /\ items' = items ) =>
               /\ last'.path = last.path
               /\ label_files' = label_files
               /\ barcode_files' = barcode_files ]_vars

C12_Witness ==
    /\ last.op = "generate_label" /\ last.err = "" /\ last.note = "replaced"
    /\ pc = "menu"
    /\ Cardinality(label_files) = 1
    /\ Cardinality(barcode_files) = 1
    /\ last.path \in Paths(label_files)

\* C13: no step of the session (list, search, details, generate_barcode,
\* generate_label, a batch and each of its iterations, the ASCII and QR
\* displays, the menus around them) changes the item list or any field of any
\* item: the catalog stays what load_items produced, and a 13-character
\* barcode that was cut to 12 characters for the encoder is still stored with
\* its 13 characters.
C13_CatalogReadOnly == [][items' = items]_vars

C13_Witness ==
    /\ last.op = "display_barcode_ascii" /\ last.idx > 0 /\ last.err = ""
    /\ Len(last.value) = 12
    /\ Len(LastItem.barcode) = 13
    /\ SubSeq(LastItem.barcode, 1, 12) = last.value
    /\ \E f \in barcode_files : f.content.value = last.value

RanQrDisplay == last.op = "display_qr_code_terminal" /\ last.idx > 0

\* What holds of the failures inside the try of display_qr_code_terminal
\* (lines 327-356): the failure is reported, nothing is raised, and the path
\* of the image on disk is returned, the image being there.
QrRenderFailureReported ==
    (RanQrDisplay /\ last.note = "Error displaying QR code") =>
        /\ last.err = ""
        /\ last.path = BarcodesDir \o <<81, 82, 95>> \o LastItem.item_id \o Png
        /\ last.path \in Paths(barcode_files)

\* C14: every call of display_qr_code_terminal, whatever fails during it
\* (generating the QR image included), raises nothing to its caller and
\* returns the path of the QR image.
C14_NoFailureEscapes ==
    RanQrDisplay =>
        /\ last.err = ""
        /\ last.note \in {"printed", "Error displaying QR code"}
        /\ last.path = BarcodesDir \o <<81, 82, 95>> \o LastItem.item_id \o Png

\* What holds of the grid of display_barcode_ascii: the frame is 50 wide,
\* the value line fills it between its two bars, there are 15 rows, all
\* equal, and a row is 50 wide exactly when the pattern has an even length of
\* at most 50 glyphs: 49 for an odd length below 50, the pattern's own length
\* above 50.
AsciiGridShape ==
    \A k \in 1..Len(shown) :
        LET n == Len(shown[k].pattern)
        IN  /\ Len(shown[k].frame) = 50
            /\ Len(shown[k].value_line) = 50 + 2
            /\ Len(shown[k].rows) = 15
            /\ \A j \in 1..15 : shown[k].rows[j] = shown[k].rows[1]
            /\ Len(shown[k].rows[1]) =
                  (IF n > 50 THEN n ELSE IF n % 2 = 0 THEN 50 ELSE 49)

\* C15: every grid display_barcode_ascii prints has exactly 15 pattern rows,
\* all identical, each exactly 50 glyphs wide with its padding, the width of
\* the frame drawn around them.
C15_GridFixedSize ==
    \A k \in 1..Len(shown) :
        /\ Len(shown[k].rows) = 15
        /\ \A j \in 1..Len(shown[k].rows) :
              /\ shown[k].rows[j] = shown[k].rows[1]
              /\ Len(shown[k].rows[j]) = 50
              /\ Len(shown[k].rows[j]) = Len(shown[k].frame)
====
